---- MODULE Spec2Model ----
(***************************************************************************)
(* A model of the Nimble endorser service (endorser/src/main.rs), of the   *)
(* coordinator (coordinator/src/main.rs), of the MetaBlock algebra and of  *)
(* the receipt verification of ledger/src/lib.rs.                          *)
(*                                                                         *)
(* The gRPC handlers of EndorserServiceState are modelled from main.rs.    *)
(* The EndorserState methods they call live in endorser_state.rs, which is *)
(* not among the sources: the ES_* operators model them from section 4.4   *)
(* of the specification, with the signatures main.rs calls them by.        *)
(***************************************************************************)
EXTENDS Integers, Sequences, FiniteSets, TLC

(***************************************************************************)
(* Bounds of the model.                                                    *)
(***************************************************************************)
\* appends are offered only while a ledger is below this height
MaxHeight == 1
\* view-ledger appends are offered only while the view is below this height
MaxViewHeight == 1
\* receipts handed to the verifiers hold at most this many entries
MaxReceiptLen == 3

(***************************************************************************)
(* Digests.  A NimbleDigest is modelled by the value it is the SHA-256 of  *)
(* (an ideal, collision-free hash): the zero digest is the empty tuple, the *)
(* digest of block n is <<n>> and the digest of a MetaBlock is the 4-tuple *)
(* of its serialized fields.                                               *)
(***************************************************************************)
num_bytes == 32

Zero == <<>>

BlockDigest(n) == <<n>>

\* a byte string on the wire: its length and, when it has the length of a
\* digest, the digest it holds
Bytes(d) == [len |-> num_bytes, val |-> d]

ShortBytes == [len |-> num_bytes - 1, val |-> Zero]

Ok(v) == [ok |-> TRUE, val |-> v]

Err(e) == [ok |-> FALSE, err |-> e]

NimbleDigest_from_bytes(bytes) ==
  IF bytes.len # num_bytes THEN Err("IncorrectLength") ELSE Ok(bytes.val)

NimbleDigest_digest(bytes) == bytes

(***************************************************************************)
(* MetaBlocks.                                                             *)
(***************************************************************************)
MetaBlock_new(view, prev, block_hash, height) ==
  [view |-> view, prev |-> prev, block_hash |-> block_hash, height |-> height]

MetaBlock_genesis(view, block_hash) ==
  [view |-> view, prev |-> Zero, block_hash |-> block_hash, height |-> 0]

MetaBlock_to_bytes(m) == <<m.view, m.prev, m.block_hash, m.height>>

MetaBlock_hash(m) == NimbleDigest_digest(MetaBlock_to_bytes(m))

(***************************************************************************)
(* The domains requests are drawn from.                                    *)
(***************************************************************************)
Handles == {BlockDigest(1)}

DataBlocks == {BlockDigest(3)}

ViewBlocks == {BlockDigest(5)}

Nonces == {"n1"}

\* the handler threads with a request in flight
Threads == {"t1", "t2"}

Workers == {"t1"}

\* the view field of the first view-ledger MetaBlock ("the hash of itself")
SelfView == <<0>>

EmptyMap == [h \in {} |-> <<Zero, 0>>]

Wire(S) == {Bytes(d) : d \in S} \cup {ShortBytes}

\* the public keys of the endorsers, in the order the coordinator connects
AllKeys == <<"e1", "e2", "e3">>

KeySet == {AllKeys[i] : i \in 1..Len(AllKeys)}

\* an endorser process as EndorserServiceState::new() leaves it: its key,
\* whether it answers, and its EndorserState under the lock
EndorserProcess(key) ==
  [key |-> key, up |-> TRUE, poisoned |-> FALSE, ledgers |-> EmptyMap,
   view_tail |-> <<Zero, 0>>, served |-> FALSE]

\* the tasks of the coordinator with a client request in hand
CoordTasks == {"c1", "c2"}

NoTask == [pc |-> "idle"]

\* a store with no ledger and an empty view ledger
EmptyStore == [ledgers |-> [h \in {} |-> <<>>], view |-> <<>>]

VARIABLES
  ledgers,        \* EndorserState: handle -> <<tail hash, height>>
  view_tail,      \* EndorserState: <<hash, height>> of the view-ledger tail
  served_append,  \* EndorserState: an append has been served
  is_locked,      \* EndorserFlags.is_locked
  poisoned,       \* the RwLock around EndorserState is poisoned
  pc,             \* per handler thread: where its request stands
  local,          \* per handler thread: the request and its local variables
  signed,         \* history: per handle, the MetaBlock signed last
  last,           \* the request the last step handled and its reply
  id_sigs,        \* the receipt under verification
  verdict,        \* the last verification and its result
  ledger_store,   \* CoordinatorState: the ledgers and the view ledger stored
  endorsers,      \* the endorser processes the coordinator connects to
  booted,         \* CoordinatorState::new has run
  reply,          \* the coordinator request handled last and its reply
  task,           \* per coordinator task: the request it is handling
  wire,           \* a byte string handed to MetaBlock::from_bytes
  parsed          \* what from_bytes made of it

vars == <<ledgers, view_tail, served_append, is_locked, poisoned, pc, local,
          signed, last, id_sigs, verdict, ledger_store, endorsers, booted,
          reply, task, wire, parsed>>

endorser_vars == <<ledgers, view_tail, served_append, is_locked, poisoned, pc,
                   local, signed, last>>

receipt_vars == <<id_sigs, verdict>>

coordinator_vars == <<ledger_store, endorsers, booted, reply, task>>

serde_vars == <<wire, parsed>>

(***************************************************************************)
(* EndorserState (endorser_state.rs), from section 4.4.  Each operator     *)
(* returns the error kind or "Ok", the fields it leaves behind and the     *)
(* MetaBlock whose hash it signed.  EndorserState holds no lock flag: the  *)
(* flag is a field of EndorserFlags, which main.rs keeps under a lock of   *)
(* its own and hands to none of these methods.                             *)
(***************************************************************************)
NoBlock == MetaBlock_new(Zero, Zero, Zero, 0)

ES_result(status, L, vt, served, mb) ==
  [status |-> status, ledgers |-> L, view_tail |-> vt, served |-> served,
   mb |-> mb]

ES_new_ledger(L, vt, served, handle) ==
  IF handle \in DOMAIN L
  THEN ES_result("LedgerExists", L, vt, served, NoBlock)
  ELSE ES_result("Ok",
                 [h \in DOMAIN L \cup {handle} |->
                    IF h = handle THEN <<Zero, 0>> ELSE L[h]],
                 vt, served, MetaBlock_genesis(vt[1], handle))

ES_append(L, vt, served, handle, block_hash, cond_tail, cond_height) ==
  IF handle \notin DOMAIN L
  THEN ES_result("InvalidLedgerName", L, vt, served, NoBlock)
  ELSE LET t == L[handle][1]
           h == L[handle][2]
           M == MetaBlock_new(vt[1], t, block_hash, h + 1)
       IN  IF cond_height # 0 /\ cond_tail # t
           THEN ES_result("InvalidConditionalTail", L, vt, served, NoBlock)
           ELSE IF cond_height # 0 /\ cond_height # h + 1
           THEN ES_result("InvalidTailHeight", L, vt, served, NoBlock)
           ELSE IF cond_height # 0 /\ cond_height <= h
           THEN ES_result("OutOfOrderAppend", L, vt, served, NoBlock)
           ELSE ES_result("Ok",
                          [L EXCEPT ![handle] = <<MetaBlock_hash(M), h + 1>>],
                          vt, TRUE, M)

ES_read_latest(L, handle, nonce) ==
  IF handle \in DOMAIN L
  THEN Ok(<<L[handle][1], nonce>>)
  ELSE Err("InvalidLedgerName")

ES_append_view_ledger(L, vt, served, block_hash, cond_view_tail) ==
  IF cond_view_tail # vt[1]
  THEN ES_result("InvalidConditionalTail", L, vt, served, NoBlock)
  ELSE LET M == IF vt[1] = Zero
                THEN MetaBlock_genesis(SelfView, block_hash)
                ELSE MetaBlock_new(vt[1], vt[1], block_hash, vt[2] + 1)
       IN  ES_result("Ok", L, <<MetaBlock_hash(M), M.height>>, served, M)

ES_read_latest_view_ledger(vt, nonce) == Ok(<<vt[1], nonce>>)

\* initialize_state with the test of an earlier append left out
ES_initialize_state_again(L, vt, served, tail_map, view_tail_in, block_hash, cond_view_tail) ==
  ES_append_view_ledger(tail_map, view_tail_in, served, block_hash,
                        cond_view_tail)

ES_initialize_state(L, vt, served, tail_map, view_tail_in, block_hash, cond_view_tail) ==
  IF served
  THEN ES_result("AlreadyInitialized", L, vt, served, NoBlock)
  ELSE ES_append_view_ledger(tail_map, view_tail_in, served, block_hash,
                             cond_view_tail)

\* the LedgerView: the tail map and the view-tail MetaBlock (its height)
ES_read_latest_state(L, vt, nonce) ==
  Ok([ledger_tail_map |-> L, view_tail_hash |-> vt[1],
      view_tail_height |-> vt[2]])

(***************************************************************************)
(* The gRPC handlers of EndorserServiceState (main.rs).  A handler that    *)
(* does all its work under one guard of the state lock is one action; the  *)
(* lock is taken with expect(), which panics once the lock is poisoned.    *)
(* A step that ends a request leaves in last the request and its reply.    *)
(***************************************************************************)
Idle == [op |-> "none"]

Reply(op, code, err) == [op |-> op, code |-> code, err |-> err]

\* the Status a handler answers an EndorserError of append with
append_status(error) ==
  CASE error = "OutOfOrderAppend" -> "FailedPrecondition"
    [] error = "InvalidConditionalTail" -> "Aborted"
    [] error = "InvalidLedgerName" -> "NotFound"
    [] error = "LedgerHeightOverflow" -> "OutOfRange"
    [] error = "InvalidTailHeight" -> "AlreadyExists"
    [] OTHER -> "Aborted"

\* signed keeps, per handle, the MetaBlock signed last
Supersede(handle, mb) ==
  {s \in signed : s.handle # handle} \cup {[handle |-> handle, mb |-> mb]}

Commit(r, handle) ==
  /\ ledgers' = r.ledgers
  /\ view_tail' = r.view_tail
  /\ served_append' = r.served
  /\ signed' = IF r.status = "Ok" /\ handle # Zero
               THEN Supersede(handle, r.mb)
               ELSE signed

NoEffect == UNCHANGED <<ledgers, view_tail, served_append, signed>>

GetPublicKey ==
  /\ last' = IF poisoned
             THEN Reply("get_public_key", "Panic", "Poisoned")
             ELSE Reply("get_public_key", "Ok", "")
  /\ NoEffect
  /\ UNCHANGED <<is_locked, poisoned, pc, local, receipt_vars, coordinator_vars, serde_vars>>

NewLedger(handle_bytes) ==
  LET handle == NimbleDigest_from_bytes(handle_bytes)
      r == ES_new_ledger(ledgers, view_tail, served_append, handle.val)
  IN  /\ IF ~handle.ok
         THEN /\ last' = Reply("new_ledger", "InvalidArgument", "")
              /\ NoEffect
              /\ UNCHANGED poisoned
         ELSE IF poisoned
         THEN /\ last' = Reply("new_ledger", "Panic", "Poisoned")
              /\ NoEffect
              /\ UNCHANGED poisoned
         ELSE IF r.status # "Ok"
         THEN \* expect() on the Err panics while the write guard is held
              /\ last' = Reply("new_ledger", "Panic", r.status)
              /\ NoEffect
              /\ poisoned' = TRUE
         ELSE /\ last' = Reply("new_ledger", "Ok", "")
              /\ Commit(r, handle.val)
              /\ UNCHANGED poisoned
      /\ UNCHANGED <<is_locked, pc, local, receipt_vars, coordinator_vars, serde_vars>>

\* append from the write lock to the reply, for the parsed request q
append_locked(q) ==
  LET r == ES_append(ledgers, view_tail, served_append, q.handle,
                     q.block_hash, q.cond_tail, q.cond_height)
  IN  /\ IF ~poisoned /\ r.status = "Ok"
         THEN ledgers[q.handle][2] < MaxHeight
         ELSE TRUE
      /\ IF poisoned
         THEN /\ last' = Reply("append", "Panic", "Poisoned")
              /\ NoEffect
         ELSE IF r.status = "Ok"
         THEN /\ last' = Reply("append", "Ok", "")
              /\ Commit(r, q.handle)
         ELSE /\ last' = Reply("append", append_status(r.status), r.status)
              /\ NoEffect
      /\ UNCHANGED <<is_locked, poisoned, receipt_vars, coordinator_vars, serde_vars>>

append_parse(handle_bytes, block_hash_bytes, cond_tail_bytes, cond_height) ==
  LET handle == NimbleDigest_from_bytes(handle_bytes)
      block_hash == NimbleDigest_from_bytes(block_hash_bytes)
      cond_tail == NimbleDigest_from_bytes(cond_tail_bytes)
  IN  IF ~handle.ok \/ ~block_hash.ok \/ ~cond_tail.ok
      THEN Err("InvalidArgument")
      ELSE Ok([op |-> "append", handle |-> handle.val,
               block_hash |-> block_hash.val, cond_tail |-> cond_tail.val,
               cond_height |-> cond_height])

\* append, served with no other request in between
AppendAtomic(handle_bytes, block_hash_bytes, cond_tail_bytes, cond_height) ==
  LET q == append_parse(handle_bytes, block_hash_bytes, cond_tail_bytes,
                        cond_height)
  IN  /\ IF ~q.ok
         THEN /\ last' = Reply("append", "InvalidArgument", "")
              /\ NoEffect
              /\ UNCHANGED <<is_locked, poisoned, receipt_vars, coordinator_vars, serde_vars>>
         ELSE append_locked(q.val)
      /\ UNCHANGED <<pc, local>>

\* append up to the point where its thread waits for the write lock
AppendReceive(t, handle_bytes, block_hash_bytes, cond_tail_bytes, cond_height) ==
  LET q == append_parse(handle_bytes, block_hash_bytes, cond_tail_bytes,
                        cond_height)
  IN  /\ pc[t] = "idle"
      /\ IF ~q.ok
         THEN /\ last' = Reply("append", "InvalidArgument", "")
              /\ UNCHANGED <<pc, local>>
         ELSE /\ UNCHANGED last
              /\ pc' = [pc EXCEPT ![t] = "append"]
              /\ local' = [local EXCEPT ![t] = q.val]
      /\ NoEffect
      /\ UNCHANGED <<is_locked, poisoned, receipt_vars, coordinator_vars, serde_vars>>

\* append of a waiting thread, from the write lock to the reply
AppendServe(t) ==
  /\ pc[t] = "append"
  /\ append_locked(local[t])
  /\ pc' = [pc EXCEPT ![t] = "idle"]
  /\ local' = [local EXCEPT ![t] = Idle]

ReadLatest(handle_bytes, nonce) ==
  LET handle == NimbleDigest_from_bytes(handle_bytes)
      res == ES_read_latest(ledgers, handle.val, nonce)
  IN  /\ last' = IF ~handle.ok
                 THEN Reply("read_latest", "InvalidArgument", "")
                 ELSE IF poisoned
                 THEN Reply("read_latest", "Panic", "Poisoned")
                 ELSE IF res.ok
                 THEN Reply("read_latest", "Ok", "")
                 ELSE Reply("read_latest", "Aborted", res.err)
      /\ NoEffect
      /\ UNCHANGED <<is_locked, poisoned, pc, local, receipt_vars, coordinator_vars, serde_vars>>

AppendViewLedger(block_hash_bytes, cond_tail_bytes) ==
  LET block_hash == NimbleDigest_from_bytes(block_hash_bytes)
      cond_tail == NimbleDigest_from_bytes(cond_tail_bytes)
      r == ES_append_view_ledger(ledgers, view_tail, served_append,
                                 block_hash.val, cond_tail.val)
  IN  /\ IF ~block_hash.ok \/ ~cond_tail.ok
         THEN /\ last' = Reply("append_view_ledger", "InvalidArgument", "")
              /\ NoEffect
         ELSE IF poisoned
         THEN /\ last' = Reply("append_view_ledger", "Panic", "Poisoned")
              /\ NoEffect
         ELSE IF r.status = "Ok"
         THEN /\ r.view_tail[2] <= MaxViewHeight
              /\ last' = Reply("append_view_ledger", "Ok", "")
              /\ Commit(r, Zero)
         ELSE /\ last' = Reply("append_view_ledger", "Aborted", r.status)
              /\ NoEffect
      /\ UNCHANGED <<is_locked, poisoned, pc, local, receipt_vars, coordinator_vars, serde_vars>>

ReadLatestViewLedger(nonce) ==
  LET res == ES_read_latest_view_ledger(view_tail, nonce)
  IN  /\ last' = IF poisoned
                 THEN Reply("read_latest_view_ledger", "Panic", "Poisoned")
                 ELSE IF res.ok
                 THEN Reply("read_latest_view_ledger", "Ok", "")
                 ELSE Reply("read_latest_view_ledger", "Aborted", res.err)
      /\ NoEffect
      /\ UNCHANGED <<is_locked, poisoned, pc, local, receipt_vars, coordinator_vars, serde_vars>>

InitializeState(ledger_tail_map, view_ledger_tail_bytes, view_ledger_height, block_hash_bytes, cond_tail_bytes) ==
  LET view_ledger_tail == NimbleDigest_from_bytes(view_ledger_tail_bytes)
      block_hash == NimbleDigest_from_bytes(block_hash_bytes)
      cond_tail == NimbleDigest_from_bytes(cond_tail_bytes)
      r == ES_initialize_state(ledgers, view_tail, served_append,
                               ledger_tail_map,
                               <<view_ledger_tail.val, view_ledger_height>>,
                               block_hash.val, cond_tail.val)
  IN  /\ IF ~view_ledger_tail.ok \/ ~block_hash.ok \/ ~cond_tail.ok
         THEN \* unwrap() panics before the state lock is taken
              /\ last' = Reply("initialize_state", "Panic", "IncorrectLength")
              /\ NoEffect
         ELSE IF poisoned
         THEN /\ last' = Reply("initialize_state", "Panic", "Poisoned")
              /\ NoEffect
         ELSE IF r.status = "Ok"
         THEN /\ r.view_tail[2] <= MaxViewHeight
              /\ last' = Reply("initialize_state", "Ok", "")
              /\ Commit(r, Zero)
         ELSE /\ last' = Reply("initialize_state", "Aborted", r.status)
              /\ Commit(r, Zero)
      /\ UNCHANGED <<is_locked, poisoned, pc, local, receipt_vars, coordinator_vars, serde_vars>>

(***************************************************************************)
(* read_latest_state takes the state lock only for the snapshot, then the  *)
(* flags lock to set the flag and once more to read it for the reply: it   *)
(* is three steps, between which other handlers run.                       *)
(***************************************************************************)
set_lock(to_lock) == to_lock

get_lock == is_locked

\* read_latest_state with the test of to_lock dropped: set_lock(to_lock) is
\* called whenever the heights agree
read_latest_state_locks_any(to_lock, view_ledger_height, ledger_view) ==
  view_ledger_height = ledger_view.view_tail_height

\* the condition under which read_latest_state calls set_lock
read_latest_state_locks(to_lock, view_ledger_height, ledger_view) ==
  to_lock /\ view_ledger_height = ledger_view.view_tail_height

ReadLatestStateSnapshot(t, nonce, view_ledger_height, to_lock) ==
  LET res == ES_read_latest_state(ledgers, view_tail, nonce)
  IN  /\ pc[t] = "idle"
      /\ IF poisoned
         THEN /\ last' = Reply("read_latest_state", "Panic", "Poisoned")
              /\ UNCHANGED <<pc, local>>
         ELSE IF res.ok
         THEN /\ UNCHANGED last
              /\ pc' = [pc EXCEPT ![t] = "rls_lock"]
              /\ local' = [local EXCEPT ![t] =
                             [op |-> "read_latest_state", nonce |-> nonce,
                              view_ledger_height |-> view_ledger_height,
                              to_lock |-> to_lock, ledger_view |-> res.val]]
         ELSE /\ last' = Reply("read_latest_state", "Aborted", res.err)
              /\ UNCHANGED <<pc, local>>
      /\ NoEffect
      /\ UNCHANGED <<is_locked, poisoned, receipt_vars, coordinator_vars, serde_vars>>

ReadLatestStateLock(t) ==
  LET q == local[t]
  IN  /\ pc[t] = "rls_lock"
      /\ is_locked' = IF read_latest_state_locks(q.to_lock, q.view_ledger_height,
                                                 q.ledger_view)
                      THEN set_lock(q.to_lock)
                      ELSE is_locked
      /\ UNCHANGED last
      /\ pc' = [pc EXCEPT ![t] = "rls_reply"]
      /\ NoEffect
      /\ UNCHANGED <<poisoned, local, receipt_vars, coordinator_vars, serde_vars>>

ReadLatestStateReply(t) ==
  LET q == local[t]
  IN  /\ pc[t] = "rls_reply"
      /\ last' = [op |-> "read_latest_state", code |-> "Ok", err |-> "",
                  reply |-> [to_lock |-> q.to_lock, is_locked |-> get_lock]]
      /\ pc' = [pc EXCEPT ![t] = "idle"]
      /\ local' = [local EXCEPT ![t] = Idle]
      /\ NoEffect
      /\ UNCHANGED <<is_locked, poisoned, receipt_vars, coordinator_vars, serde_vars>>

(***************************************************************************)
(* The endorser: EndorserServiceState::new() and the requests it serves.   *)
(***************************************************************************)
CondTails == {Zero} \cup {ledgers[h][1] : h \in DOMAIN ledgers}

CondViewTails == {Zero, view_tail[1]}

\* the view height a read_latest_state request names: the current one, or
\* the one of another view
ViewHeights == {view_tail[2], MaxViewHeight}

\* a view tail handed to initialize_state: none, or the one of this view
InitViewTails == {<<Zero, 0>>, view_tail}

\* a tail map handed to initialize_state: none, or the one of this endorser
InitTailMaps == {EmptyMap, ledgers}

Init ==
  /\ ledgers = EmptyMap
  /\ view_tail = <<Zero, 0>>
  /\ served_append = FALSE
  /\ is_locked = FALSE
  /\ poisoned = FALSE
  /\ pc = [t \in Threads |-> "idle"]
  /\ local = [t \in Threads |-> Idle]
  /\ signed = {}
  /\ last = Reply("new", "", "")
  /\ id_sigs = <<>>
  /\ verdict = [op |-> "none"]
  /\ ledger_store = EmptyStore
  /\ endorsers = [k \in KeySet |-> EndorserProcess(k)]
  /\ booted = FALSE
  /\ reply = [op |-> "none"]
  /\ task = [t \in CoordTasks |-> NoTask]
  /\ wire = <<>>
  /\ parsed = [op |-> "none"]

\* the requests on the wire: well-formed ones, and ones with a field that
\* has not the length of a digest
NewLedgerReqs == {<<Bytes(h)>> : h \in Handles} \cup {<<ShortBytes>>}

AppendReqs ==
  {<<Bytes(h), Bytes(b), Bytes(c), n>> :
     h \in Handles, b \in DataBlocks, c \in CondTails, n \in 0..(MaxHeight + 1)}
  \cup {<<ShortBytes, Bytes(BlockDigest(3)), Bytes(Zero), 0>>,
         <<Bytes(BlockDigest(1)), ShortBytes, Bytes(Zero), 0>>,
         <<Bytes(BlockDigest(1)), Bytes(BlockDigest(3)), ShortBytes, 0>>}

AppendViewLedgerReqs ==
  {<<Bytes(b), Bytes(c)>> : b \in ViewBlocks, c \in CondViewTails}
  \cup {<<ShortBytes, Bytes(Zero)>>, <<Bytes(BlockDigest(5)), ShortBytes>>}

InitializeStateReqs ==
  {<<m, Bytes(vt[1]), vt[2], Bytes(b), Bytes(c)>> :
     m \in InitTailMaps, vt \in InitViewTails, b \in ViewBlocks,
     c \in CondViewTails}
  \cup {<<EmptyMap, ShortBytes, 0, Bytes(BlockDigest(5)), Bytes(Zero)>>,
         <<EmptyMap, Bytes(Zero), 0, ShortBytes, Bytes(Zero)>>,
         <<EmptyMap, Bytes(Zero), 0, Bytes(BlockDigest(5)), ShortBytes>>}

Requests ==
  \/ GetPublicKey
  \/ \E q \in NewLedgerReqs : NewLedger(q[1])
  \/ \E hb \in Wire(Handles), n \in Nonces : ReadLatest(hb, n)
  \/ \E q \in AppendViewLedgerReqs : AppendViewLedger(q[1], q[2])
  \/ \E n \in Nonces : ReadLatestViewLedger(n)
  \/ \E q \in InitializeStateReqs :
       InitializeState(q[1], q[2], q[3], q[4], q[5])

StateReads(T) ==
  \/ \E t \in T, n \in Nonces, vh \in ViewHeights, lk \in BOOLEAN :
       ReadLatestStateSnapshot(t, n, vh, lk)
  \/ \E t \in T : ReadLatestStateLock(t)
  \/ \E t \in T : ReadLatestStateReply(t)

Next ==
  \/ Requests
  \/ \E q \in AppendReqs : AppendAtomic(q[1], q[2], q[3], q[4])
  \/ StateReads(Workers)

\* two appends in flight at once
NextRace ==
  \/ Requests
  \/ \E t \in Threads, q \in AppendReqs :
       AppendReceive(t, q[1], q[2], q[3], q[4])
  \/ \E t \in Threads : AppendServe(t)

Spec == Init /\ [][Next]_vars

SpecRace == Init /\ [][NextRace]_vars

\* an endorser asked for ledgers of two handles
TwoHandles == Handles \cup {BlockDigest(2)}

NextHandles ==
  \/ GetPublicKey
  \/ \E hb \in Wire(TwoHandles) : NewLedger(hb)
  \/ \E hb \in Wire(TwoHandles), n \in Nonces : ReadLatest(hb, n)
  \/ \E q \in AppendReqs : AppendAtomic(q[1], q[2], q[3], q[4])
  \/ \E q \in AppendViewLedgerReqs : AppendViewLedger(q[1], q[2])

SpecHandles == Init /\ [][NextHandles]_vars

(***************************************************************************)
(* Receipts (ledger/src/lib.rs).  A public key is a name; a signature is   *)
(* the pair of the key that made it and the message it was made on, so     *)
(* that it verifies against exactly that key and message.  A list of       *)
(* public keys holds each key once, in the order of AllKeys.               *)
(***************************************************************************)
Msg == "msg"

OtherMsg == "other"

sign(key, msg) == [by |-> key, msg |-> msg]

Signature_verify(sig, id, msg) ==
  IF sig.by = id /\ sig.msg = msg THEN Ok(<<>>) ELSE Err("InvalidSignature")

IdSig(id, sig) == [id |-> id, sig |-> sig]

\* the entries a receipt is made of: a key with its signature on the
\* message, or with its signature on another message
IdSigs == {IdSig(k, sign(k, m)) : k \in KeySet, m \in {Msg, OtherMsg}}

PkVec(S) == SelectSeq(AllKeys, LAMBDA k : k \in S)

PkVecs == {PkVec(S) : S \in SUBSET KeySet}

unique_ids(receipt) == {receipt[i].id : i \in 1..Len(receipt)}

\* the check of entry i in the loop of Receipt::verify
Receipt_check(receipt, i, msg, pk_vec) ==
  IF ~\E j \in 1..Len(pk_vec) : pk_vec[j] = receipt[i].id
  THEN Err("InvalidPublicKey")
  ELSE IF ~Signature_verify(receipt[i].sig, receipt[i].id, msg).ok
  THEN Err("InvalidSignature")
  ELSE Ok(<<>>)

\* try_for_each over the checks of the entries, in order: the error of the
\* first entry that fails its check
try_for_each(checks) ==
  IF \E i \in DOMAIN checks : ~checks[i].ok
  THEN checks[CHOOSE i \in DOMAIN checks :
                ~checks[i].ok /\ \A j \in 1..(i - 1) : checks[j].ok]
  ELSE Ok(<<>>)

\* Receipt::verify with the membership test of the loop left out
Receipt_verify_no_membership(receipt, msg, pk_vec) ==
  IF Len(receipt) # Cardinality(unique_ids(receipt))
  THEN Err("DuplicateIds")
  ELSE IF Len(receipt) < (Len(pk_vec) \div 2) + 1
  THEN Err("InsufficientQuorum")
  ELSE LET res == try_for_each([i \in 1..Len(receipt) |->
                                 Signature_verify(receipt[i].sig,
                                                  receipt[i].id, msg)])
       IN  IF ~res.ok THEN Err("InvalidReceipt") ELSE Ok(<<>>)

Receipt_verify(receipt, msg, pk_vec) ==
  IF Len(receipt) # Cardinality(unique_ids(receipt))
  THEN Err("DuplicateIds")
  ELSE IF Len(receipt) < (Len(pk_vec) \div 2) + 1
  THEN Err("InsufficientQuorum")
  ELSE LET res == try_for_each([i \in 1..Len(receipt) |->
                                 Receipt_check(receipt, i, msg, pk_vec)])
       IN  IF ~res.ok THEN Err("InvalidReceipt") ELSE Ok(<<>>)

num_sigs_from_pk_vec_existing(receipt, pk_vec_existing) ==
  Cardinality({i \in 1..Len(pk_vec_existing) :
                 \E x \in 1..Len(receipt) :
                   receipt[x].id = pk_vec_existing[i]})

pk_vec_proposed_but_not_in_existing(pk_vec_existing, pk_vec_proposed) ==
  {pk_vec_proposed[i] : i \in 1..Len(pk_vec_proposed)}
    \ {pk_vec_existing[i] : i \in 1..Len(pk_vec_existing)}

num_sigs_from_pk_vec_proposed_but_not_in_existing(receipt, diff) ==
  Cardinality({pk \in diff : \E x \in 1..Len(receipt) : receipt[x].id = pk})

\* ViewChangeReceipt::verify with the test of the new endorsers left out
ViewChangeReceipt_verify_no_proposed(receipt, msg, pk_vec_existing, pk_vec_proposed) ==
  IF Len(receipt) # Cardinality(unique_ids(receipt))
  THEN Err("DuplicateIds")
  ELSE IF num_sigs_from_pk_vec_existing(receipt, pk_vec_existing)
            < (Len(pk_vec_existing) \div 2) + 1
  THEN Err("InsufficientQuorum")
  ELSE LET res == try_for_each([i \in 1..Len(receipt) |->
                                 Signature_verify(receipt[i].sig,
                                                  receipt[i].id, msg)])
       IN  IF ~res.ok THEN Err("InvalidReceipt") ELSE Ok(<<>>)

\* ViewChangeReceipt::verify with the loop of Receipt::verify, which tests
\* that a signer is a member (here of the existing or the proposed keys)
ViewChangeReceipt_verify_members(receipt, msg, pk_vec_existing, pk_vec_proposed) ==
  LET diff == pk_vec_proposed_but_not_in_existing(pk_vec_existing,
                                                  pk_vec_proposed)
  IN  IF Len(receipt) # Cardinality(unique_ids(receipt))
      THEN Err("DuplicateIds")
      ELSE IF num_sigs_from_pk_vec_existing(receipt, pk_vec_existing)
                < (Len(pk_vec_existing) \div 2) + 1
      THEN Err("InsufficientQuorum")
      ELSE IF num_sigs_from_pk_vec_proposed_but_not_in_existing(receipt, diff)
                # Cardinality(diff)
      THEN Err("InsufficientQuorum")
      ELSE LET res == try_for_each([i \in 1..Len(receipt) |->
                                     Receipt_check(receipt, i, msg,
                                                   pk_vec_existing
                                                     \o pk_vec_proposed)])
           IN  IF ~res.ok THEN Err("InvalidReceipt") ELSE Ok(<<>>)

ViewChangeReceipt_verify(receipt, msg, pk_vec_existing, pk_vec_proposed) ==
  LET diff == pk_vec_proposed_but_not_in_existing(pk_vec_existing,
                                                  pk_vec_proposed)
  IN  IF Len(receipt) # Cardinality(unique_ids(receipt))
      THEN Err("DuplicateIds")
      ELSE IF num_sigs_from_pk_vec_existing(receipt, pk_vec_existing)
                < (Len(pk_vec_existing) \div 2) + 1
      THEN Err("InsufficientQuorum")
      ELSE IF num_sigs_from_pk_vec_proposed_but_not_in_existing(receipt, diff)
                # Cardinality(diff)
      THEN Err("InsufficientQuorum")
      ELSE LET res == try_for_each([i \in 1..Len(receipt) |->
                                     Signature_verify(receipt[i].sig,
                                                      receipt[i].id, msg)])
           IN  IF ~res.ok THEN Err("InvalidReceipt") ELSE Ok(<<>>)

NoVerdict == [op |-> "none"]

\* a receipt grows by the signature of one more endorser
AddIdSig(id_sig) ==
  /\ verdict = NoVerdict
  /\ Len(id_sigs) < MaxReceiptLen
  /\ id_sigs' = Append(id_sigs, id_sig)
  /\ UNCHANGED <<verdict, endorser_vars, coordinator_vars, serde_vars>>

ReceiptVerify(pk_vec) ==
  /\ verdict = NoVerdict
  /\ verdict' = [op |-> "Receipt::verify", pk_vec |-> pk_vec,
                 res |-> Receipt_verify(id_sigs, Msg, pk_vec)]
  /\ UNCHANGED <<id_sigs, endorser_vars, coordinator_vars, serde_vars>>

ViewChangeReceiptVerify(pk_vec_existing, pk_vec_proposed) ==
  /\ verdict = NoVerdict
  /\ verdict' = [op |-> "ViewChangeReceipt::verify",
                 pk_vec_existing |-> pk_vec_existing,
                 pk_vec_proposed |-> pk_vec_proposed,
                 res |-> ViewChangeReceipt_verify(id_sigs, Msg,
                                                  pk_vec_existing,
                                                  pk_vec_proposed)]
  /\ UNCHANGED <<id_sigs, endorser_vars, coordinator_vars, serde_vars>>

\* the verifier turns to a new, empty receipt
NewReceipt ==
  /\ verdict # NoVerdict
  /\ id_sigs' = <<>>
  /\ verdict' = NoVerdict
  /\ UNCHANGED <<endorser_vars, coordinator_vars, serde_vars>>

NextReceipt ==
  \/ \E e \in IdSigs : AddIdSig(e)
  \/ \E P \in PkVecs : ReceiptVerify(P)
  \/ \E E \in PkVecs, I \in PkVecs : ViewChangeReceiptVerify(E, I)
  \/ NewReceipt

SpecReceipt == Init /\ [][NextReceipt]_vars

(***************************************************************************)
(* Nonces and blocks (ledger/src/lib.rs).  A nonce on the wire is its      *)
(* length and the value it holds; a block is the number its bytes spell.   *)
(***************************************************************************)
nonce_bytes == 16

NonceBytes(n) == [len |-> nonce_bytes, val |-> n]

ShortNonce == [len |-> nonce_bytes - 1, val |-> 0]

Nonce_new(nonce) ==
  IF nonce.len # nonce_bytes THEN Err("IncorrectLength") ELSE Ok(nonce.val)

\* the concatenation of three byte strings, each a digit
concat(parts) == 100 * parts[1] + 10 * parts[2] + parts[3]

\* the concatenation of the public keys of pk_vec: one digit per key, after
\* a digit no nonce starts with
flatten(pk_vec) == 50 + Len(pk_vec)

Block_new(bytes) == bytes

Block_genesis(service_nonce_bytes, client_nonce_bytes, app_bytes) ==
  LET nonce_res == Nonce_new(service_nonce_bytes)
      client_res == Nonce_new(client_nonce_bytes)
  IN  IF ~nonce_res.ok \/ ~client_res.ok
      THEN Err("InvalidNonceSize")
      ELSE Ok(Block_new(concat(<<nonce_res.val, client_res.val, app_bytes>>)))

Block_hash(block) == NimbleDigest_digest(BlockDigest(block))

(***************************************************************************)
(* The LedgerStore of the coordinator (ledger::store), from section 4.5:   *)
(* per handle the MetaBlocks of the ledger with their receipts, and the    *)
(* view ledger.  An append is conditional on the tail hash it names.       *)
(***************************************************************************)
Entry(mb) == [aux |-> mb, receipt |-> <<>>]

LS_tail_hash(entries) == MetaBlock_hash(entries[Len(entries)].aux)

LS_view_tail_hash(S) == IF S.view = <<>> THEN Zero ELSE LS_tail_hash(S.view)

LS_append_view_ledger(S, block) ==
  LET t == LS_view_tail_hash(S)
      mb == IF S.view = <<>>
            THEN MetaBlock_genesis(SelfView, Block_hash(block))
            ELSE MetaBlock_new(t, t, Block_hash(block), Len(S.view))
  IN  Ok([store |-> [S EXCEPT !.view = Append(S.view, Entry(mb))],
          mb |-> mb, tail_hash |-> MetaBlock_hash(mb)])

LS_attach_view_ledger_receipt(S, mb, receipt) ==
  IF mb.height + 1 \in DOMAIN S.view /\ S.view[mb.height + 1].aux = mb
  THEN Ok([S EXCEPT !.view[mb.height + 1].receipt = receipt])
  ELSE Err("KeyDoesNotExist")

LS_create_ledger(S, block) ==
  LET handle == Block_hash(block)
      mb == MetaBlock_genesis(LS_view_tail_hash(S), handle)
  IN  IF handle \in DOMAIN S.ledgers
      THEN Err("DuplicateKey")
      ELSE Ok([store |->
                 [S EXCEPT !.ledgers =
                    [h \in DOMAIN S.ledgers \cup {handle} |->
                       IF h = handle THEN <<Entry(mb)>> ELSE S.ledgers[h]]],
               handle |-> handle, mb |-> mb,
               tail_hash |-> MetaBlock_hash(mb)])

LS_append_ledger(S, handle, block, cond_tail) ==
  IF handle \notin DOMAIN S.ledgers
  THEN Err("KeyDoesNotExist")
  ELSE LET t == LS_tail_hash(S.ledgers[handle])
           mb == MetaBlock_new(LS_view_tail_hash(S), t, Block_hash(block),
                               Len(S.ledgers[handle]))
       IN  IF cond_tail # t
           THEN Err("InvalidConditionalTail")
           ELSE Ok([store |->
                      [S EXCEPT !.ledgers[handle] = Append(@, Entry(mb))],
                    mb |-> mb, tail_hash |-> MetaBlock_hash(mb)])

LS_attach_ledger_receipt(S, handle, mb, receipt) ==
  IF /\ handle \in DOMAIN S.ledgers
     /\ mb.height + 1 \in DOMAIN S.ledgers[handle]
     /\ S.ledgers[handle][mb.height + 1].aux = mb
  THEN Ok([S EXCEPT !.ledgers[handle][mb.height + 1].receipt = receipt])
  ELSE Err("KeyDoesNotExist")

(***************************************************************************)
(* The endorsers the coordinator talks to.  Each is an EndorserServiceState*)
(* of its own; a handler of main.rs is here a function from the state of   *)
(* the process and a well-formed request to the answer and the state left. *)
(* An endorser that stopped answers nothing.                               *)
(***************************************************************************)
NoSig == sign("", Zero)

Answer(code, err, sig, s) ==
  [code |-> code, err |-> err, sig |-> sig, state |-> s]

Endorser_after(s, r) ==
  [s EXCEPT !.ledgers = r.ledgers, !.view_tail = r.view_tail,
            !.served = r.served]

Endorser_initialize_state(s, tail_map, view_tail_in, block_hash, cond_tail) ==
  LET r == ES_initialize_state(s.ledgers, s.view_tail, s.served, tail_map,
                               view_tail_in, block_hash, cond_tail)
  IN  IF ~s.up THEN Answer("Unavailable", "", NoSig, s)
      ELSE IF s.poisoned THEN Answer("Panic", "Poisoned", NoSig, s)
      ELSE IF r.status = "Ok"
      THEN Answer("Ok", "", sign(s.key, MetaBlock_hash(r.mb)),
                  Endorser_after(s, r))
      ELSE Answer("Aborted", r.status, NoSig, Endorser_after(s, r))

Endorser_new_ledger(s, handle) ==
  LET r == ES_new_ledger(s.ledgers, s.view_tail, s.served, handle)
  IN  IF ~s.up THEN Answer("Unavailable", "", NoSig, s)
      ELSE IF s.poisoned THEN Answer("Panic", "Poisoned", NoSig, s)
      ELSE IF r.status = "Ok"
      THEN Answer("Ok", "", sign(s.key, MetaBlock_hash(r.mb)),
                  Endorser_after(s, r))
      ELSE Answer("Panic", r.status, NoSig, [s EXCEPT !.poisoned = TRUE])

Endorser_append(s, handle, block_hash, cond_tail, cond_height) ==
  LET r == ES_append(s.ledgers, s.view_tail, s.served, handle, block_hash,
                     cond_tail, cond_height)
  IN  IF ~s.up THEN Answer("Unavailable", "", NoSig, s)
      ELSE IF s.poisoned THEN Answer("Panic", "Poisoned", NoSig, s)
      ELSE IF r.status = "Ok"
      THEN Answer("Ok", "", sign(s.key, MetaBlock_hash(r.mb)),
                  Endorser_after(s, r))
      ELSE Answer(append_status(r.status), r.status, NoSig, s)

(***************************************************************************)
(* The ConnectionStore (coordinator/src/network.rs), from section 4.5: a   *)
(* request goes to every endorser, and the receipt holds the signature of  *)
(* each endorser that answered with one, in the order of connection.       *)
(***************************************************************************)
connections_get_all == AllKeys

connections_receipt(answers) ==
  LET signers == SelectSeq(AllKeys, LAMBDA k : answers[k].code = "Ok")
  IN  [i \in 1..Len(signers) |-> IdSig(signers[i], answers[signers[i]].sig)]

connections_result(answers) ==
  Ok([receipt |-> connections_receipt(answers),
      endorsers |-> [k \in KeySet |-> answers[k].state],
      codes |-> [k \in KeySet |-> answers[k].code]])

connections_initialize_state(E, tail_map, view_tail_in, block_hash, cond_tail) ==
  connections_result([k \in KeySet |->
    Endorser_initialize_state(E[k], tail_map, view_tail_in, block_hash,
                              cond_tail)])

connections_create_ledger(E, handle) ==
  connections_result([k \in KeySet |-> Endorser_new_ledger(E[k], handle)])

\* the height of the request is the one of the tail the store has moved to
connections_append_ledger(E, handle, block_hash, tail_hash, height) ==
  connections_result([k \in KeySet |->
    Endorser_append(E[k], handle, block_hash, tail_hash, height)])

(***************************************************************************)
(* The coordinator (coordinator/src/main.rs).  A request is handled in one *)
(* step: the store operation, the fan-out and the receipt attached.  The   *)
(* store results are taken with assert! and the receipts with unwrap(), so *)
(* an error of either ends the request in a panic.                         *)
(***************************************************************************)
\* the coordinator creates at most this many ledgers
MaxLedgers == 1

NoCodes == [k \in KeySet |-> "none"]

CoordReply(op, code, err, mb, receipt, codes) ==
  [op |-> op, code |-> code, err |-> err, mb |-> mb, receipt |-> receipt,
   codes |-> codes]

CoordError(op, code, err) == CoordReply(op, code, err, NoBlock, <<>>, NoCodes)

\* CoordinatorState::new: the endorsers are connected, the genesis block of
\* the view ledger is stored and the endorsers are initialized with it
Bootstrap ==
  /\ ~booted
  /\ \A k \in KeySet : endorsers[k].up
  /\ LET endorser_pk_vec == connections_get_all
         view_ledger_genesis_block == Block_new(flatten(endorser_pk_vec))
         res == LS_append_view_ledger(ledger_store, view_ledger_genesis_block)
         fan == connections_initialize_state(
                  endorsers, EmptyMap, <<Zero, 0>>,
                  Block_hash(view_ledger_genesis_block), res.val.tail_hash)
         att == LS_attach_view_ledger_receipt(res.val.store, res.val.mb,
                                              fan.val.receipt)
     IN  /\ res.ok /\ fan.ok /\ att.ok
         /\ ledger_store' = att.val
         /\ endorsers' = fan.val.endorsers
         /\ reply' = CoordReply("new", "Ok", "", res.val.mb, fan.val.receipt,
                                fan.val.codes)
  /\ booted' = TRUE
  /\ UNCHANGED <<endorser_vars, receipt_vars, serde_vars, task>>

\* an endorser stops answering
EndorserStops(k) ==
  /\ booted
  /\ endorsers[k].up
  /\ endorsers' = [endorsers EXCEPT ![k].up = FALSE]
  /\ UNCHANGED <<ledger_store, booted, reply, endorser_vars, receipt_vars, serde_vars, task>>

CoordNewLedger(client_nonce, app_bytes) ==
  /\ booted
  /\ LET service_nonce ==
           NonceBytes(Cardinality(DOMAIN ledger_store.ledgers) + 1)
         genesis_op == Block_genesis(service_nonce, client_nonce, app_bytes)
     IN  IF ~genesis_op.ok
         THEN /\ reply' = CoordError("new_ledger", "Aborted", genesis_op.err)
              /\ UNCHANGED <<ledger_store, endorsers>>
         ELSE LET res == LS_create_ledger(ledger_store, genesis_op.val)
                  fan == connections_create_ledger(endorsers, res.val.handle)
                  att == LS_attach_ledger_receipt(
                           res.val.store, res.val.handle, res.val.mb,
                           fan.val.receipt)
              IN  /\ Cardinality(DOMAIN ledger_store.ledgers) < MaxLedgers
                  /\ IF ~res.ok
                     THEN /\ reply' = CoordError("new_ledger", "Panic", res.err)
                          /\ UNCHANGED <<ledger_store, endorsers>>
                     ELSE /\ ledger_store' = att.val
                          /\ endorsers' = fan.val.endorsers
                          /\ reply' = CoordReply("new_ledger", "Ok", "",
                                                 res.val.mb, fan.val.receipt,
                                                 fan.val.codes)
  /\ UNCHANGED <<booted, endorser_vars, receipt_vars, serde_vars, task>>

CoordAppend(handle_bytes, block, cond_tail_hash) ==
  /\ booted
  /\ LET h == NimbleDigest_from_bytes(handle_bytes)
         data_block == Block_new(block)
         hash_of_block == Block_hash(data_block)
         d == NimbleDigest_from_bytes(cond_tail_hash)
     IN  IF ~h.ok \/ ~d.ok
         THEN /\ reply' = CoordError("append", "InvalidArgument",
                                     "IncorrectLength")
              /\ UNCHANGED <<ledger_store, endorsers>>
         ELSE LET res == LS_append_ledger(ledger_store, h.val, data_block,
                                          d.val)
              IN  IF ~res.ok
                  THEN /\ reply' = CoordError("append", "Panic", res.err)
                       /\ UNCHANGED <<ledger_store, endorsers>>
                  ELSE LET fan == connections_append_ledger(
                                    endorsers, h.val, hash_of_block,
                                    res.val.tail_hash, res.val.mb.height)
                           att == LS_attach_ledger_receipt(
                                    res.val.store, h.val, res.val.mb,
                                    fan.val.receipt)
                       IN  /\ res.val.mb.height <= MaxHeight
                           /\ ledger_store' = att.val
                           /\ endorsers' = fan.val.endorsers
                           /\ reply' = CoordReply("append", "Ok", "",
                                                  res.val.mb, fan.val.receipt,
                                                  fan.val.codes)
  /\ UNCHANGED <<booted, endorser_vars, receipt_vars, serde_vars, task>>

\* the requests of clients: a nonce of 16 bytes or a shorter one; a handle
\* the store knows or another, a block and the hash of a stored MetaBlock
CoordNewLedgerReqs == {<<NonceBytes(7), 0>>, <<ShortNonce, 0>>}

StoredTails ==
  {Zero} \cup
  UNION {{MetaBlock_hash(ledger_store.ledgers[h][i].aux) :
            i \in DOMAIN ledger_store.ledgers[h]} :
         h \in DOMAIN ledger_store.ledgers}

CoordAppendReqs ==
  {<<Bytes(h), 3, Bytes(c)>> :
     h \in DOMAIN ledger_store.ledgers \cup Handles, c \in StoredTails}
  \cup {<<ShortBytes, 3, Bytes(Zero)>>, <<Bytes(BlockDigest(1)), 3, ShortBytes>>}

NextCoord ==
  \/ Bootstrap
  \/ \E k \in KeySet : EndorserStops(k)
  \/ \E q \in CoordNewLedgerReqs : CoordNewLedger(q[1], q[2])
  \/ \E q \in CoordAppendReqs : CoordAppend(q[1], q[2], q[3])

SpecCoord == Init /\ [][NextCoord]_vars

(***************************************************************************)
(* The coordinator with requests in flight.  The handlers are async and    *)
(* hold nothing across their calls: the store operation, the fan-out and   *)
(* the receipt attached are steps of their own, and the steps of two       *)
(* tasks interleave.  What a task has in hand between steps is in task.    *)
(***************************************************************************)
\* new_ledger with create_ledger left for later: the handle goes to the
\* endorsers before the store holds it
CoordNewLedgerStore_unstored(t, client_nonce, app_bytes) ==
  /\ booted
  /\ task[t].pc = "idle"
  /\ Cardinality(DOMAIN ledger_store.ledgers) < MaxLedgers
  /\ LET service_nonce ==
           NonceBytes(Cardinality(DOMAIN ledger_store.ledgers) + 1)
         genesis_op == Block_genesis(service_nonce, client_nonce, app_bytes)
         res == LS_create_ledger(ledger_store, genesis_op.val)
     IN  /\ genesis_op.ok
         /\ res.ok
         /\ task' = [task EXCEPT ![t] = [pc |-> "new_ledger_fan_out",
                                         handle |-> res.val.handle,
                                         mb |-> res.val.mb]]
  /\ UNCHANGED <<ledger_store, endorsers, booted, reply, endorser_vars, receipt_vars, serde_vars>>

\* new_ledger up to the store: the genesis block and create_ledger
CoordNewLedgerStore(t, client_nonce, app_bytes) ==
  /\ booted
  /\ task[t].pc = "idle"
  /\ LET service_nonce ==
           NonceBytes(Cardinality(DOMAIN ledger_store.ledgers) + 1)
         genesis_op == Block_genesis(service_nonce, client_nonce, app_bytes)
     IN  IF ~genesis_op.ok
         THEN /\ reply' = CoordError("new_ledger", "Aborted", genesis_op.err)
              /\ UNCHANGED <<ledger_store, task>>
         ELSE LET res == LS_create_ledger(ledger_store, genesis_op.val)
              IN  /\ Cardinality(DOMAIN ledger_store.ledgers) < MaxLedgers
                  /\ IF ~res.ok
                     THEN /\ reply' = CoordError("new_ledger", "Panic", res.err)
                          /\ UNCHANGED <<ledger_store, task>>
                     ELSE /\ ledger_store' = res.val.store
                          /\ task' = [task EXCEPT ![t] =
                                        [pc |-> "new_ledger_fan_out",
                                         handle |-> res.val.handle,
                                         mb |-> res.val.mb]]
                          /\ UNCHANGED reply
  /\ UNCHANGED <<endorsers, booted, endorser_vars, receipt_vars, serde_vars>>

\* connections.create_ledger(&handle).await
CoordNewLedgerFanOut(t) ==
  /\ task[t].pc = "new_ledger_fan_out"
  /\ LET fan == connections_create_ledger(endorsers, task[t].handle)
     IN  /\ fan.ok
         /\ endorsers' = fan.val.endorsers
         /\ task' = [task EXCEPT ![t] = [pc |-> "new_ledger_attach",
                                         handle |-> task[t].handle,
                                         mb |-> task[t].mb,
                                         receipt |-> fan.val.receipt,
                                         codes |-> fan.val.codes]]
  /\ UNCHANGED <<ledger_store, booted, reply, endorser_vars, receipt_vars, serde_vars>>

\* attach_ledger_receipt and the reply
CoordNewLedgerAttach(t) ==
  /\ task[t].pc = "new_ledger_attach"
  /\ LET att == LS_attach_ledger_receipt(ledger_store, task[t].handle,
                                         task[t].mb, task[t].receipt)
     IN  IF ~att.ok
         THEN /\ reply' = CoordError("new_ledger", "Panic", att.err)
              /\ UNCHANGED ledger_store
         ELSE /\ ledger_store' = att.val
              /\ reply' = CoordReply("new_ledger", "Ok", "", task[t].mb,
                                     task[t].receipt, task[t].codes)
  /\ task' = [task EXCEPT ![t] = NoTask]
  /\ UNCHANGED <<endorsers, booted, endorser_vars, receipt_vars, serde_vars>>

\* append up to the store: the arguments and append_ledger
CoordAppendStore(t, handle_bytes, block, cond_tail_hash) ==
  /\ booted
  /\ task[t].pc = "idle"
  /\ LET h == NimbleDigest_from_bytes(handle_bytes)
         data_block == Block_new(block)
         hash_of_block == Block_hash(data_block)
         d == NimbleDigest_from_bytes(cond_tail_hash)
     IN  IF ~h.ok \/ ~d.ok
         THEN /\ reply' = CoordError("append", "InvalidArgument",
                                     "IncorrectLength")
              /\ UNCHANGED <<ledger_store, task>>
         ELSE LET res == LS_append_ledger(ledger_store, h.val, data_block,
                                          d.val)
              IN  IF ~res.ok
                  THEN /\ reply' = CoordError("append", "Panic", res.err)
                       /\ UNCHANGED <<ledger_store, task>>
                  ELSE /\ res.val.mb.height <= MaxHeight
                       /\ ledger_store' = res.val.store
                       /\ task' = [task EXCEPT ![t] =
                                     [pc |-> "append_fan_out",
                                      handle |-> h.val,
                                      hash_of_block |-> hash_of_block,
                                      tail_hash |-> res.val.tail_hash,
                                      mb |-> res.val.mb]]
                       /\ UNCHANGED reply
  /\ UNCHANGED <<endorsers, booted, endorser_vars, receipt_vars, serde_vars>>

\* connections.append_ledger(&handle, &hash_of_block, &ledger_tail_hash).await
CoordAppendFanOut(t) ==
  /\ task[t].pc = "append_fan_out"
  /\ LET fan == connections_append_ledger(
                  endorsers, task[t].handle, task[t].hash_of_block,
                  task[t].tail_hash, task[t].mb.height)
     IN  /\ fan.ok
         /\ endorsers' = fan.val.endorsers
         /\ task' = [task EXCEPT ![t] = [pc |-> "append_attach",
                                         handle |-> task[t].handle,
                                         mb |-> task[t].mb,
                                         receipt |-> fan.val.receipt,
                                         codes |-> fan.val.codes]]
  /\ UNCHANGED <<ledger_store, booted, reply, endorser_vars, receipt_vars, serde_vars>>

CoordAppendAttach(t) ==
  /\ task[t].pc = "append_attach"
  /\ LET att == LS_attach_ledger_receipt(ledger_store, task[t].handle,
                                         task[t].mb, task[t].receipt)
     IN  IF ~att.ok
         THEN /\ reply' = CoordError("append", "Panic", att.err)
              /\ UNCHANGED ledger_store
         ELSE /\ ledger_store' = att.val
              /\ reply' = CoordReply("append", "Ok", "", task[t].mb,
                                     task[t].receipt, task[t].codes)
  /\ task' = [task EXCEPT ![t] = NoTask]
  /\ UNCHANGED <<endorsers, booted, endorser_vars, receipt_vars, serde_vars>>

\* read_latest of the endorser, as a function of the state of the process
Endorser_read_latest(s, handle, nonce) ==
  LET r == ES_read_latest(s.ledgers, handle, nonce)
  IN  IF ~s.up THEN Answer("Unavailable", "", NoSig, s)
      ELSE IF s.poisoned THEN Answer("Panic", "Poisoned", NoSig, s)
      ELSE IF r.ok THEN Answer("Ok", "", sign(s.key, r.val), s)
      ELSE Answer("Aborted", r.err, NoSig, s)

\* the tail of a ledger of the store: its last entry
LS_read_ledger_tail(S, handle) ==
  IF handle \in DOMAIN S.ledgers
  THEN Ok(S.ledgers[handle][Len(S.ledgers[handle])])
  ELSE Err("KeyDoesNotExist")

connections_read_ledger_tail(E, handle, nonce) ==
  connections_result([k \in KeySet |-> Endorser_read_latest(E[k], handle, nonce)])

\* read_latest up to the store: the arguments and read_ledger_tail
CoordReadLatestStore(t, handle_bytes, nonce_bytes_in) ==
  /\ booted
  /\ task[t].pc = "idle"
  /\ LET nonce_op == Nonce_new(nonce_bytes_in)
         h == NimbleDigest_from_bytes(handle_bytes)
         res == LS_read_ledger_tail(ledger_store, h.val)
     IN  IF ~nonce_op.ok
         THEN /\ reply' = CoordError("read_latest", "InvalidArgument",
                                     nonce_op.err)
              /\ UNCHANGED task
         ELSE IF ~h.ok
         THEN /\ reply' = CoordError("read_latest", "InvalidArgument", h.err)
              /\ UNCHANGED task
         ELSE IF ~res.ok
         THEN /\ reply' = CoordError("read_latest", "Panic", res.err)
              /\ UNCHANGED task
         ELSE /\ task' = [task EXCEPT ![t] =
                            [pc |-> "read_latest_fan_out",
                             handle |-> h.val,
                             nonce |-> nonce_op.val,
                             ledger_entry |-> res.val]]
              /\ UNCHANGED reply
  /\ UNCHANGED <<ledger_store, endorsers, booted, endorser_vars, receipt_vars, serde_vars>>

\* connections.read_ledger_tail(&handle, &nonce).await and the reply, made
\* of the entry read before
CoordReadLatestFanOut(t) ==
  /\ task[t].pc = "read_latest_fan_out"
  /\ LET fan == connections_read_ledger_tail(endorsers, task[t].handle,
                                             task[t].nonce)
     IN  /\ fan.ok
         /\ reply' = CoordReply("read_latest", "Ok", "",
                                task[t].ledger_entry.aux, fan.val.receipt,
                                fan.val.codes)
  /\ task' = [task EXCEPT ![t] = NoTask]
  /\ UNCHANGED <<ledger_store, endorsers, booted, endorser_vars, receipt_vars, serde_vars>>

CoordReadLatestReqs ==
  {<<Bytes(h), n>> : h \in DOMAIN ledger_store.ledgers \cup Handles,
                     n \in {NonceBytes(7), ShortNonce}}
  \cup {<<ShortBytes, NonceBytes(7)>>}

NextCoordTasks ==
  \/ Bootstrap
  \/ \E t \in CoordTasks, q \in CoordNewLedgerReqs :
       CoordNewLedgerStore(t, q[1], q[2])
  \/ \E t \in CoordTasks : CoordNewLedgerFanOut(t)
  \/ \E t \in CoordTasks : CoordNewLedgerAttach(t)
  \/ \E t \in CoordTasks, q \in CoordAppendReqs :
       CoordAppendStore(t, q[1], q[2], q[3])
  \/ \E t \in CoordTasks : CoordAppendFanOut(t)
  \/ \E t \in CoordTasks : CoordAppendAttach(t)
  \/ \E t \in CoordTasks, q \in CoordReadLatestReqs :
       CoordReadLatestStore(t, q[1], q[2])
  \/ \E t \in CoordTasks : CoordReadLatestFanOut(t)

SpecCoordTasks == Init /\ [][NextCoordTasks]_vars

(***************************************************************************)
(* The serialization of MetaBlocks (CustomSerde, ledger/src/lib.rs): the   *)
(* bytes themselves.  A digest is its 32 bytes; the height is a usize in   *)
(* little-endian order, of 8 bytes on the 64-bit targets of the services.  *)
(***************************************************************************)
usize_len == 8

RECURSIVE to_le_bytes(_, _)
to_le_bytes(n, len) ==
  IF len = 0 THEN <<>> ELSE <<n % 256>> \o to_le_bytes(n \div 256, len - 1)

RECURSIVE from_le_bytes(_)
from_le_bytes(b) ==
  IF b = <<>> THEN 0 ELSE b[1] + 256 * from_le_bytes(Tail(b))

CustomSerde_to_bytes(m) ==
  m.view \o m.prev \o m.block_hash \o to_le_bytes(m.height, usize_len)

\* from_bytes that takes the first digest for prev and the second for view
CustomSerde_from_bytes_swapped(b) ==
  LET digest_len == num_bytes
  IN  IF Len(b) # 3 * digest_len + usize_len
      THEN Err("IncorrectLength")
      ELSE Ok(MetaBlock_new(
                SubSeq(b, digest_len + 1, 2 * digest_len),
                SubSeq(b, 1, digest_len),
                SubSeq(b, 2 * digest_len + 1, 3 * digest_len),
                from_le_bytes(SubSeq(b, 3 * digest_len + 1, Len(b)))))

CustomSerde_from_bytes(b) ==
  LET digest_len == num_bytes
  IN  IF Len(b) # 3 * digest_len + usize_len
      THEN Err("IncorrectLength")
      ELSE Ok(MetaBlock_new(
                SubSeq(b, 1, digest_len),
                SubSeq(b, digest_len + 1, 2 * digest_len),
                SubSeq(b, 2 * digest_len + 1, 3 * digest_len),
                from_le_bytes(SubSeq(b, 3 * digest_len + 1, Len(b)))))

\* the digests, heights and MetaBlocks that are serialized: the zero digest
\* and one whose bytes all differ; a height of more than one byte
WireDigests == {[i \in 1..num_bytes |-> 0], [i \in 1..num_bytes |-> i]}

WireHeights == {0, MaxHeight, 258}

WireMetaBlocks ==
  {MetaBlock_new(v, p, b, h) :
     v \in WireDigests, p \in WireDigests, b \in WireDigests,
     h \in WireHeights}

\* the lengths a byte string is cut to
ShortLens == {0, 3 * num_bytes, 3 * num_bytes + usize_len - 1}

Serialize(m) ==
  /\ wire' = CustomSerde_to_bytes(m)
  /\ parsed' = [op |-> "none"]
  /\ UNCHANGED <<endorser_vars, receipt_vars, coordinator_vars>>

\* the byte string loses its end
Chop(n) ==
  /\ n < Len(wire)
  /\ wire' = SubSeq(wire, 1, n)
  /\ parsed' = [op |-> "none"]
  /\ UNCHANGED <<endorser_vars, receipt_vars, coordinator_vars>>

\* the byte string gains a zero byte
Extend ==
  /\ Len(wire) <= 3 * num_bytes + usize_len
  /\ wire' = Append(wire, 0)
  /\ parsed' = [op |-> "none"]
  /\ UNCHANGED <<endorser_vars, receipt_vars, coordinator_vars>>

Deserialize ==
  /\ parsed.op = "none"
  /\ parsed' = [op |-> "from_bytes", res |-> CustomSerde_from_bytes(wire)]
  /\ UNCHANGED <<wire, endorser_vars, receipt_vars, coordinator_vars>>

NextSerde ==
  \/ \E m \in WireMetaBlocks : Serialize(m)
  \/ \E n \in ShortLens : Chop(n)
  \/ Extend
  \/ Deserialize

SpecSerde == Init /\ [][NextSerde]_vars

(***************************************************************************)
(* Well-formed requests.                                                   *)
(***************************************************************************)
\* a well-formed append request
AppendParses(q) == append_parse(q[1], q[2], q[3], q[4]).ok

\* a well-formed append_view_ledger request
AppendViewLedgerParses(q) ==
  NimbleDigest_from_bytes(q[1]).ok /\ NimbleDigest_from_bytes(q[2]).ok

(***************************************************************************)
(* What the endorser signs.                                                *)
(***************************************************************************)
\* C1: over any sequence of requests the endorser never signs two distinct
\* MetaBlocks that have the same handle and the same height.
C1_Monotonicity ==
  [][\A s \in signed, n \in signed' :
       s.handle = n.handle /\ s.mb.height = n.mb.height => s.mb = n.mb]_vars

\* C4: per handle the signed MetaBlocks form one chain: the first has height
\* 0 and prev = Zero, each later one has the height of the one before plus
\* one and prev = its hash; the recorded height of a handle never decreases
\* and never skips a value.
C4_ChainIntegrity ==
  [][/\ \A n \in signed' \ signed :
          IF \E s \in signed : s.handle = n.handle
          THEN \A s \in signed :
                 s.handle = n.handle =>
                   /\ n.mb.height = s.mb.height + 1
                   /\ n.mb.prev = MetaBlock_hash(s.mb)
          ELSE n.mb.height = 0 /\ n.mb.prev = Zero
     /\ \A h \in DOMAIN ledgers \cap DOMAIN ledgers' :
          ledgers'[h][2] \in {ledgers[h][2], ledgers[h][2] + 1}]_vars

(***************************************************************************)
(* The errors of append.                                                   *)
(***************************************************************************)
\* the step rejects the request with error e and changes no ledger
RejectedWith(e) == last'.err = e /\ UNCHANGED <<ledgers, view_tail>>

\* C10: on an unlocked endorser, append on a known handle with
\* cond_height # 0 and cond_tail different from the tail fails with
\* InvalidConditionalTail, append on an unknown handle fails with
\* InvalidLedgerName, and both leave ledgers and view_tail unchanged.
C10_AppendErrors ==
  [][~is_locked =>
       \A q \in AppendReqs :
         AppendParses(q) /\ AppendAtomic(q[1], q[2], q[3], q[4]) =>
           LET a == append_parse(q[1], q[2], q[3], q[4]).val
           IN  IF a.handle \notin DOMAIN ledgers
               THEN RejectedWith("InvalidLedgerName")
               ELSE a.cond_height # 0 /\ a.cond_tail # ledgers[a.handle][1]
                      => RejectedWith("InvalidConditionalTail")]_vars

\* the parsed request of a well-formed append
Parsed(q) == append_parse(q[1], q[2], q[3], q[4]).val

\* C11: on an unlocked endorser, append on a known handle with
\* cond_height = 0 opts out of the conditional check: it succeeds whatever
\* cond_tail is and moves the ledger from height h to height h + 1.
C11_OptOut ==
  [][~is_locked =>
       \A q \in AppendReqs :
         /\ AppendParses(q)
         /\ AppendAtomic(q[1], q[2], q[3], q[4])
         /\ Parsed(q).handle \in DOMAIN ledgers
         /\ Parsed(q).cond_height = 0
         => /\ last'.code = "Ok"
            /\ ledgers'[Parsed(q).handle][2] = ledgers[Parsed(q).handle][2] + 1]_vars

\* C12: on an unlocked endorser, an append on a known handle at height h
\* that carries a cond_height of at most h (a stale replay) is rejected
\* with OutOfOrderAppend, surfaced as FailedPrecondition, and leaves the
\* ledger tail unchanged.
C12_StaleReplay ==
  [][~is_locked =>
       \A q \in AppendReqs :
         /\ AppendParses(q)
         /\ AppendAtomic(q[1], q[2], q[3], q[4])
         /\ Parsed(q).handle \in DOMAIN ledgers
         /\ Parsed(q).cond_height # 0
         /\ Parsed(q).cond_height <= ledgers[Parsed(q).handle][2]
         => /\ last'.err = "OutOfOrderAppend"
            /\ last'.code = "FailedPrecondition"
            /\ UNCHANGED ledgers]_vars

\* C13: on an unlocked endorser, an append on a known handle at tail (t, h)
\* with cond_tail = t and cond_height neither 0 nor h + 1 is rejected with
\* InvalidTailHeight, surfaced as AlreadyExists, and leaves the ledger tail
\* unchanged.
C13_InvalidTailHeight ==
  [][~is_locked =>
       \A q \in AppendReqs :
         /\ AppendParses(q)
         /\ AppendAtomic(q[1], q[2], q[3], q[4])
         /\ Parsed(q).handle \in DOMAIN ledgers
         /\ Parsed(q).cond_tail = ledgers[Parsed(q).handle][1]
         /\ Parsed(q).cond_height
              \notin {0, ledgers[Parsed(q).handle][2] + 1}
         => /\ last'.err = "InvalidTailHeight"
            /\ last'.code = "AlreadyExists"
            /\ UNCHANGED ledgers]_vars

(***************************************************************************)
(* initialize_state after an append.                                       *)
(***************************************************************************)
\* the endorser has signed the MetaBlock of an append
AppendServed == \E s \in signed : s.mb.height > 0

\* C14: once the endorser has served a successful append, every further
\* initialize_state is rejected and leaves ledgers and view_tail unchanged
\* (a step that leaves the reply of an initialize_state in last is that
\* request, or a step of read_latest_state, which changes neither).
C14_NoSecondInitialization ==
  [][AppendServed /\ last'.op = "initialize_state" =>
       last'.code # "Ok" /\ UNCHANGED <<ledgers, view_tail>>]_vars

\* an initialize_state was turned down because of an earlier append
C14_Witness ==
  /\ AppendServed
  /\ last.op = "initialize_state"
  /\ last.code = "Aborted"
  /\ last.err = "AlreadyInitialized"

(***************************************************************************)
(* Malformed requests.                                                     *)
(***************************************************************************)
\* a well-formed initialize_state request
InitializeStateParses(q) ==
  /\ NimbleDigest_from_bytes(q[2]).ok
  /\ NimbleDigest_from_bytes(q[4]).ok
  /\ NimbleDigest_from_bytes(q[5]).ok

\* the step answers InvalidArgument and changes no state of the endorser
InvalidArgumentOnly ==
  /\ last'.code = "InvalidArgument"
  /\ UNCHANGED <<ledgers, view_tail, served_append, is_locked, poisoned>>

\* C15: every endorser request with a digest field that has not the length
\* of a digest is rejected with InvalidArgument and changes no state.
C15_InvalidArgument ==
  [][/\ \A q \in NewLedgerReqs :
          ~NimbleDigest_from_bytes(q[1]).ok /\ NewLedger(q[1])
            => InvalidArgumentOnly
     /\ \A q \in AppendReqs :
          ~AppendParses(q) /\ AppendAtomic(q[1], q[2], q[3], q[4])
            => InvalidArgumentOnly
     /\ \A hb \in Wire(Handles), n \in Nonces :
          ~NimbleDigest_from_bytes(hb).ok /\ ReadLatest(hb, n)
            => InvalidArgumentOnly
     /\ \A q \in AppendViewLedgerReqs :
          ~AppendViewLedgerParses(q) /\ AppendViewLedger(q[1], q[2])
            => InvalidArgumentOnly
     /\ \A q \in InitializeStateReqs :
          /\ ~InitializeStateParses(q)
          /\ InitializeState(q[1], q[2], q[3], q[4], q[5])
          => InvalidArgumentOnly]_vars

(***************************************************************************)
(* New ledgers.                                                            *)
(***************************************************************************)
\* C21: new_ledger on a handle the endorser has is rejected and leaves the
\* tail and height of the handle as they were; on an unlocked endorser that
\* has not the handle it inserts (0^32, 0) for it and signs the hash of
\* MetaBlock.genesis(V, handle), V the hash of the view tail.
C21_NewLedger ==
  [][\A h \in TwoHandles :
       NewLedger(Bytes(h)) =>
         IF h \in DOMAIN ledgers
         THEN last'.code # "Ok" /\ UNCHANGED ledgers
         ELSE ~is_locked =>
                /\ last'.code = "Ok"
                /\ DOMAIN ledgers' = DOMAIN ledgers \cup {h}
                /\ ledgers'[h] = <<Zero, 0>>
                /\ \A g \in DOMAIN ledgers : ledgers'[g] = ledgers[g]
                /\ [handle |-> h,
                    mb |-> MetaBlock_genesis(view_tail[1], h)] \in signed']_vars

\* C27: a request the state machine rejects, such as a new_ledger for a
\* handle that exists, does not impair the endorser: a later get_public_key,
\* read_latest, append or read_latest_state is answered as the state of the
\* endorser demands, which a rejected request has not changed.
C27_RejectionHarmless ==
  [][/\ GetPublicKey => last'.code = "Ok"
     /\ \A hb \in Wire(Handles), n \in Nonces :
          ReadLatest(hb, n) /\ NimbleDigest_from_bytes(hb).ok =>
            last'.code = IF ES_read_latest(ledgers, hb.val, n).ok
                         THEN "Ok"
                         ELSE "Aborted"
     /\ \A q \in AppendReqs :
          AppendParses(q) /\ AppendAtomic(q[1], q[2], q[3], q[4]) =>
            LET r == ES_append(ledgers, view_tail, served_append,
                               Parsed(q).handle, Parsed(q).block_hash,
                               Parsed(q).cond_tail, Parsed(q).cond_height)
            IN  last'.code = IF r.status = "Ok"
                             THEN "Ok"
                             ELSE append_status(r.status)
     /\ \A t \in Workers, n \in Nonces, vh \in ViewHeights, lk \in BOOLEAN :
          ReadLatestStateSnapshot(t, n, vh, lk) => pc'[t] = "rls_lock"]_vars

(***************************************************************************)
(* The view ledger.                                                        *)
(***************************************************************************)
\* C22: append_view_ledger changes view_tail if and only if the endorser is
\* unlocked and cond_view_tail is the hash of the current view tail; then
\* the view height grows by exactly 1; the ledger map is never changed.
C22_AppendViewLedger ==
  [][\A q \in AppendViewLedgerReqs :
       AppendViewLedgerParses(q) /\ AppendViewLedger(q[1], q[2]) =>
         /\ view_tail' # view_tail <=>
              (~is_locked /\ q[2].val = view_tail[1])
         /\ ~is_locked /\ q[2].val = view_tail[1] =>
              view_tail'[2] = view_tail[2] + 1
         /\ UNCHANGED ledgers]_vars

(***************************************************************************)
(* The reads.                                                              *)
(***************************************************************************)
\* C19: get_public_key, read_latest and read_latest_view_ledger never change
\* ledgers, view_tail or the lock flag; read_latest on a known handle
\* succeeds whether or not the endorser is locked, and read_latest on an
\* unknown handle fails.
C19_ReadsFrame ==
  [][/\ GetPublicKey => UNCHANGED <<ledgers, view_tail, is_locked>>
     /\ \A n \in Nonces :
          ReadLatestViewLedger(n) => UNCHANGED <<ledgers, view_tail, is_locked>>
     /\ \A hb \in Wire(Handles), n \in Nonces :
          ReadLatest(hb, n) =>
            /\ UNCHANGED <<ledgers, view_tail, is_locked>>
            /\ NimbleDigest_from_bytes(hb).ok =>
                 IF NimbleDigest_from_bytes(hb).val \in DOMAIN ledgers
                 THEN last'.code = "Ok"
                 ELSE last'.code # "Ok"]_vars

(***************************************************************************)
(* The lock flag.                                                          *)
(***************************************************************************)
\* some locking read_latest_state has set the flag and every
\* read_latest_state has returned
LockingReadReturned == is_locked /\ \A t \in Threads : pc[t] = "idle"

\* the step answers Locked and leaves the ledgers and the view tail alone
LockedOut == last'.err = "Locked" /\ UNCHANGED <<ledgers, view_tail>>

\* C2: after a read_latest_state with to_lock = true and the height of the
\* view tail has returned, every append and every append_view_ledger fails
\* with Locked and changes neither ledgers nor view_tail.
C2_LockSafety ==
  [][LockingReadReturned =>
       /\ \A q \in AppendReqs :
            AppendParses(q) /\ AppendAtomic(q[1], q[2], q[3], q[4]) => LockedOut
       /\ \A q \in AppendViewLedgerReqs :
            AppendViewLedgerParses(q) /\ AppendViewLedger(q[1], q[2])
              => LockedOut]_vars

\* the state a read_latest_state would snapshot now
CurrentView == ES_read_latest_state(ledgers, view_tail, "n1").val

\* C7: a locking read_latest_state snapshots and locks atomically: when it
\* sets the flag the state is the one it snapshotted, and the view tail is
\* at the height the request names.
C7_AtomicSnapshotAndLock ==
  [][\A t \in Threads :
       /\ ReadLatestStateLock(t)
       /\ read_latest_state_locks(local[t].to_lock,
                                  local[t].view_ledger_height,
                                  local[t].ledger_view)
       => /\ local[t].ledger_view = CurrentView
          /\ local[t].view_ledger_height = view_tail[2]]_vars

\* a step of the read_latest_state of thread t
ReadLatestStateStep(t) ==
  \/ \E n \in Nonces, vh \in ViewHeights, lk \in BOOLEAN :
       ReadLatestStateSnapshot(t, n, vh, lk)
  \/ ReadLatestStateLock(t)
  \/ ReadLatestStateReply(t)

\* C9: read_latest_state leaves the flag unchanged whenever to_lock is false
\* or view_ledger_height differs from the current height of the view tail,
\* and it never changes ledgers or view_tail.
C9_ReadLatestStateFrame ==
  [][\A t \in Threads :
       /\ ReadLatestStateStep(t) => UNCHANGED <<ledgers, view_tail>>
       /\ /\ ReadLatestStateLock(t)
          /\ \/ ~local[t].to_lock
             \/ local[t].view_ledger_height # view_tail[2]
          => UNCHANGED is_locked]_vars

\* C8: once the lock flag is true it is true in every later state, whatever
\* request is served.
C8_LockIsTerminal == [][is_locked => is_locked']_vars

\* a read_latest_state with to_lock = false has returned on a locked
\* endorser and reports it locked
C8_Witness ==
  /\ is_locked
  /\ last.op = "read_latest_state"
  /\ last.code = "Ok"
  /\ ~last.reply.to_lock
  /\ last.reply.is_locked

(***************************************************************************)
(* Two appends in flight.                                                  *)
(***************************************************************************)
\* another thread waits with the same append as thread t
Twin(t) == \E u \in Threads \ {t} : pc[u] = "append" /\ local[u] = local[t]

\* the append q is conditioned on the tail the ledger has now
OnCurrentTail(q) ==
  /\ q.handle \in DOMAIN ledgers
  /\ q.cond_tail = ledgers[q.handle][1]
  /\ q.cond_height = ledgers[q.handle][2] + 1

\* the ledger's tail is the MetaBlock an append like q has just signed
TwinWon(q) ==
  /\ q.handle \in DOMAIN ledgers
  /\ \E s \in signed :
       /\ s.handle = q.handle
       /\ MetaBlock_hash(s.mb) = ledgers[q.handle][1]
       /\ s.mb.prev = q.cond_tail
       /\ s.mb.height = q.cond_height
       /\ s.mb.block_hash = q.block_hash

\* C3: of two concurrent appends for one handle that are conditioned on the
\* same current tail, the one served first succeeds and the height grows by
\* one; the other is rejected with InvalidConditionalTail or
\* OutOfOrderAppend and the height stays.
C3_OneAppendWins ==
  [][\A t \in Threads :
       AppendServe(t) =>
         LET q == local[t]
         IN  /\ Twin(t) /\ OnCurrentTail(q) =>
                  /\ last'.code = "Ok"
                  /\ ledgers'[q.handle][2] = ledgers[q.handle][2] + 1
             /\ ~Twin(t) /\ TwinWon(q) /\ q.cond_height # 0 =>
                  /\ last'.err \in {"InvalidConditionalTail",
                                    "OutOfOrderAppend"}
                  /\ UNCHANGED ledgers]_vars

(***************************************************************************)
(* Receipt verification.                                                   *)
(***************************************************************************)
Entries == 1..Len(id_sigs)

Quorum(pk_vec) == (Cardinality({pk_vec[i] : i \in 1..Len(pk_vec)}) \div 2) + 1

\* entry i carries a signature of its signer on the message
ValidOnMsg(i) == id_sigs[i].sig = sign(id_sigs[i].id, Msg)

Member(i, pk_vec) == id_sigs[i].id \in {pk_vec[j] : j \in 1..Len(pk_vec)}

DistinctIds == \A i, j \in Entries : i # j => id_sigs[i].id # id_sigs[j].id

\* the signers of the entries that are members of pk_vec
SignersIn(pk_vec) == {id_sigs[i].id : i \in {j \in Entries : Member(j, pk_vec)}}

\* the members of pk_vec with a valid signature in the receipt
ValidSignersIn(pk_vec) ==
  {id_sigs[i].id : i \in {j \in Entries : Member(j, pk_vec) /\ ValidOnMsg(j)}}

\* C5: Receipt.verify(msg, P) is Ok if and only if the receipt holds at
\* least floor(|P|/2)+1 entries with pairwise distinct signers that are
\* members of P and whose signatures are valid on msg.
C5_QuorumSoundness ==
  verdict.op = "Receipt::verify" =>
    (verdict.res.ok <=>
       Cardinality(ValidSignersIn(verdict.pk_vec)) >= Quorum(verdict.pk_vec))

\* C5, amended: Receipt.verify(msg, P) is Ok if and only if the signers of
\* the receipt are pairwise distinct, the receipt has at least
\* floor(|P|/2)+1 entries, and every entry's signer is a member of P with a
\* signature valid on msg.
C5_QuorumOfAllValid ==
  verdict.op = "Receipt::verify" =>
    (verdict.res.ok <=>
       /\ DistinctIds
       /\ Len(id_sigs) >= Quorum(verdict.pk_vec)
       /\ \A i \in Entries : Member(i, verdict.pk_vec) /\ ValidOnMsg(i))

\* a receipt of two of three endorsers has been accepted
C5_Witness ==
  /\ verdict.op = "Receipt::verify"
  /\ verdict.res.ok
  /\ Len(verdict.pk_vec) = 3
  /\ Len(id_sigs) = 2

\* the outcome of a verification: "Ok" or the kind of its error
Outcome(res) == IF res.ok THEN "Ok" ELSE res.err

\* C23: Receipt.verify reports the first check that fails, with its own
\* error kind: DuplicateIds for signers that are not pairwise distinct, else
\* InsufficientQuorum for fewer than floor(|P|/2)+1 entries, else
\* InvalidPublicKey for a signer that is not in P, else InvalidSignature
\* for a signature that does not verify.
C23_FirstFailingCheck ==
  verdict.op = "Receipt::verify" =>
    Outcome(verdict.res) =
      IF ~DistinctIds THEN "DuplicateIds"
      ELSE IF Len(id_sigs) < Quorum(verdict.pk_vec) THEN "InsufficientQuorum"
      ELSE IF \E i \in Entries : ~Member(i, verdict.pk_vec)
      THEN "InvalidPublicKey"
      ELSE IF \E i \in Entries : ~ValidOnMsg(i) THEN "InvalidSignature"
      ELSE "Ok"

\* C24: for every MetaBlock M, from_bytes(M.to_bytes()) is a MetaBlock with
\* the view, prev, block_hash and height of M, and from_bytes of a byte
\* string whose length is not 3*32+8 = 104 fails with IncorrectLength.
C24_RoundTrip ==
  parsed.op = "from_bytes" =>
    /\ \A m \in WireMetaBlocks :
         wire = CustomSerde_to_bytes(m) =>
           /\ parsed.res.ok
           /\ parsed.res.val.view = m.view
           /\ parsed.res.val.prev = m.prev
           /\ parsed.res.val.block_hash = m.block_hash
           /\ parsed.res.val.height = m.height
    /\ Len(wire) # 3 * 32 + 8 => Outcome(parsed.res) = "IncorrectLength"

\* a MetaBlock of height 258 and of two different digests has come back
\* from its bytes
C24_Witness ==
  /\ parsed.op = "from_bytes"
  /\ parsed.res.ok
  /\ parsed.res.val.height = 258
  /\ parsed.res.val.view # parsed.res.val.prev
  /\ wire = CustomSerde_to_bytes(parsed.res.val)

\* C6: ViewChangeReceipt.verify(msg, E, I) is Ok if and only if the receipt
\* holds signatures of at least floor(|E|/2)+1 members of E and of every
\* member of I \ E, and all signatures in the receipt are valid on msg.
C6_ViewChangeSoundness ==
  verdict.op = "ViewChangeReceipt::verify" =>
    (verdict.res.ok <=>
       /\ Cardinality(SignersIn(verdict.pk_vec_existing))
            >= Quorum(verdict.pk_vec_existing)
       /\ \A k \in KeySet :
            /\ \E i \in 1..Len(verdict.pk_vec_proposed) :
                 verdict.pk_vec_proposed[i] = k
            /\ ~\E i \in 1..Len(verdict.pk_vec_existing) :
                  verdict.pk_vec_existing[i] = k
            => \E i \in Entries : id_sigs[i].id = k
       /\ \A i \in Entries : ValidOnMsg(i))

\* C6, amended: ViewChangeReceipt.verify(msg, E, I) is Ok if and only if the
\* signers of the receipt are pairwise distinct, at least floor(|E|/2)+1
\* members of E and every member of I \ E have an entry in the receipt,
\* and all signatures in the receipt are valid on msg.
C6_ViewChangeOfDistinct ==
  verdict.op = "ViewChangeReceipt::verify" =>
    (verdict.res.ok <=>
       /\ DistinctIds
       /\ Cardinality(SignersIn(verdict.pk_vec_existing))
            >= Quorum(verdict.pk_vec_existing)
       /\ \A k \in KeySet :
            /\ \E i \in 1..Len(verdict.pk_vec_proposed) :
                 verdict.pk_vec_proposed[i] = k
            /\ ~\E i \in 1..Len(verdict.pk_vec_existing) :
                  verdict.pk_vec_existing[i] = k
            => \E i \in Entries : id_sigs[i].id = k
       /\ \A i \in Entries : ValidOnMsg(i))

\* a receipt of a majority of two outgoing endorsers and of the one new
\* endorser has been accepted
C6_Witness ==
  /\ verdict.op = "ViewChangeReceipt::verify"
  /\ verdict.res.ok
  /\ verdict.pk_vec_existing = PkVec({"e1", "e2"})
  /\ verdict.pk_vec_proposed = PkVec({"e1", "e2", "e3"})
  /\ Len(id_sigs) = 3

\* the keys of the proposed view that are not keys of the existing one
NewKeys ==
  pk_vec_proposed_but_not_in_existing(verdict.pk_vec_existing,
                                      verdict.pk_vec_proposed)

\* a majority of the existing keys has an entry in the receipt
MajorityOfExisting ==
  Cardinality(SignersIn(verdict.pk_vec_existing))
    >= Quorum(verdict.pk_vec_existing)

\* C26: a ViewChangeReceipt of pairwise distinct signers with a majority of
\* E that lacks the signature of a key of I \ E fails with
\* InsufficientQuorum, the error kind of a missing majority of E.
C26_MissingNewEndorser ==
  verdict.op = "ViewChangeReceipt::verify" /\ DistinctIds =>
    /\ (/\ MajorityOfExisting
        /\ \E k \in NewKeys : ~\E i \in Entries : id_sigs[i].id = k)
       => Outcome(verdict.res) = "InsufficientQuorum"
    /\ ~MajorityOfExisting => Outcome(verdict.res) = "InsufficientQuorum"

\* the receipt of both outgoing endorsers that lacks the new endorser e3 has
\* been rejected
C26_Witness ==
  /\ verdict.op = "ViewChangeReceipt::verify"
  /\ verdict.pk_vec_existing = PkVec({"e1", "e2"})
  /\ verdict.pk_vec_proposed = PkVec({"e1", "e2", "e3"})
  /\ Len(id_sigs) = 2
  /\ DistinctIds
  /\ MajorityOfExisting
  /\ Outcome(verdict.res) = "InsufficientQuorum"

\* entry i is of a key that is neither an existing nor a proposed one
Outsider(i) ==
  ~Member(i, verdict.pk_vec_existing) /\ ~Member(i, verdict.pk_vec_proposed)

AllLive == \A k \in KeySet : endorsers[k].up

\* the endorsers that answer are a majority, and some endorser does not
MinorityStopped ==
  /\ \E k \in KeySet : ~endorsers[k].up
  /\ 2 * Cardinality({k \in KeySet : endorsers[k].up}) > Cardinality(KeySet)

\* the append request q names a ledger of the store
CoordAppendKnown(q) ==
  /\ NimbleDigest_from_bytes(q[1]).ok
  /\ NimbleDigest_from_bytes(q[3]).ok
  /\ q[1].val \in DOMAIN ledger_store.ledgers

\* the append request q is conditional on the tail the store holds
CondOnTail(q) ==
  /\ CoordAppendKnown(q)
  /\ q[3].val = LS_tail_hash(ledger_store.ledgers[q[1].val])

\* the receipt holds the signature of endorser k on the hash of mb
SignedBy(receipt, k, mb) ==
  \E i \in DOMAIN receipt :
    receipt[i] = IdSig(k, sign(k, MetaBlock_hash(mb)))

\* the reply is a success whose MetaBlock the store holds with the receipt
\* of the reply, and the receipt verifies on the hash of that MetaBlock
\* against the keys of the endorsers
Receipted ==
  /\ reply.code = "Ok"
  /\ \E h \in DOMAIN ledger_store.ledgers :
       \E i \in DOMAIN ledger_store.ledgers[h] :
         ledger_store.ledgers[h][i] =
           [aux |-> reply.mb, receipt |-> reply.receipt]
  /\ Receipt_verify(reply.receipt, MetaBlock_hash(reply.mb), AllKeys).ok

\* C16: with every endorser answering after the bootstrap, a NewLedger and
\* the first Append conditional on the stored tail each return a receipt in
\* which every endorser signed the hash of the MetaBlock the store holds and
\* which verifies against the endorsers' keys; the appended MetaBlock has
\* height 1 and the hash of the genesis MetaBlock as prev.
C16_EndToEnd ==
  [][AllLive =>
       /\ \A q \in CoordNewLedgerReqs :
            CoordNewLedger(q[1], q[2]) /\ Nonce_new(q[1]).ok =>
              /\ Receipted'
              /\ \A k \in KeySet : SignedBy(reply'.receipt, k, reply'.mb)
       /\ \A q \in CoordAppendReqs :
            /\ CoordAppend(q[1], q[2], q[3])
            /\ CondOnTail(q)
            /\ Len(ledger_store.ledgers[q[1].val]) = 1
            => /\ Receipted'
               /\ \A k \in KeySet : SignedBy(reply'.receipt, k, reply'.mb)
               /\ reply'.mb.height = 1
               /\ reply'.mb.prev =
                    MetaBlock_hash(ledger_store.ledgers[q[1].val][1].aux)]_vars

\* C17: an Append that the store accepts while a strict minority of the
\* endorsers does not answer completes, and the receipt it attaches and
\* returns holds the signatures of the endorsers that answer and meets the
\* quorum.
C17_MinorityTolerated ==
  [][MinorityStopped =>
       \A q \in CoordAppendReqs :
         CoordAppend(q[1], q[2], q[3]) /\ CondOnTail(q) =>
           /\ Receipted'
           /\ \A k \in KeySet :
                endorsers[k].up => SignedBy(reply'.receipt, k, reply'.mb)]_vars

\* C18: an Append whose cond_tail_hash is not the hash of the tail the
\* store holds is answered Aborted with InvalidConditionalTail, and leaves
\* the store and every endorser as they were.
C18_ReplayAborted ==
  [][\A q \in CoordAppendReqs :
       /\ CoordAppend(q[1], q[2], q[3])
       /\ CoordAppendKnown(q)
       /\ ~CondOnTail(q)
       => /\ reply'.code = "Aborted"
          /\ reply'.err = "InvalidConditionalTail"
          /\ UNCHANGED <<ledger_store, endorsers>>]_vars

\* C20: the bootstrap's initialize_state succeeds on every endorser, leaves
\* the view tail of each endorser at the hash of the genesis view MetaBlock
\* of the store, and the receipt attached to that MetaBlock holds one
\* signature per endorser.
C20_Bootstrap ==
  [][Bootstrap =>
       /\ \A k \in KeySet : reply'.codes[k] = "Ok"
       /\ \A k \in KeySet :
            endorsers'[k].view_tail[1] = LS_view_tail_hash(ledger_store')
       /\ Len(ledger_store'.view[1].receipt) = Cardinality(KeySet)
       /\ \A k \in KeySet :
            SignedBy(ledger_store'.view[1].receipt, k,
                     ledger_store'.view[1].aux)]_vars

(***************************************************************************)
(* The coordinator with requests in flight.                                *)
(***************************************************************************)
InFanOut(t) == task[t].pc \in {"new_ledger_fan_out", "append_fan_out"}

InAttach(t) == task[t].pc \in {"new_ledger_attach", "append_attach"}

StoreHolds(S, handle, mb) ==
  /\ handle \in DOMAIN S.ledgers
  /\ mb.height + 1 \in DOMAIN S.ledgers[handle]
  /\ S.ledgers[handle][mb.height + 1].aux = mb

C28_ReadLatestConsistent ==
  [][\A t \in CoordTasks :
       CoordReadLatestFanOut(t) =>
         \A i \in DOMAIN reply'.receipt :
           reply'.receipt[i].sig.msg
             = <<MetaBlock_hash(reply'.mb), task[t].nonce>>]_vars


====
